---- MODULE Spec2Model ----
(***************************************************************************)
(* Model of the booking reconciliation of bszntermine (src/app.py): the    *)
(* respond_poll handler, run by several requests at once, each on its own  *)
(* sqlite3 connection, against one poll and its tables.                    *)
(*                                                                         *)
(* A request reads with single SELECT statements (each sees the rows       *)
(* committed at that moment), then writes DELETE/INSERT inside the         *)
(* transaction python's sqlite3 opens before the first DML statement, and  *)
(* commits.  Uncommitted rows live in `journal` and are seen by the        *)
(* writing connection only; one connection writes at a time (`lock`).      *)
(***************************************************************************)
EXTENDS Integers, Sequences, FiniteSets, Bags, TLC

\* ------------------------------------------------------------------ bounds
NumProcs     == 2   \* requests in flight at the same time
NumNames     == 2   \* participant names
NumOptions   == 2   \* poll_options rows of the poll
NumResources == 2   \* poll_resources rows of the poll at creation
MaxCap       == 2   \* largest max_participants value
MaxRequests  == 2   \* requests the server receives in one run

Procs     == 1..NumProcs
AllNames  == <<"A", "B", "C", "D">>
Names     == {AllNames[i] : i \in 1..NumNames}
OptionIds == 1..NumOptions
ResourceIds == 1..NumResources

\* SQL NULL / python None is the empty tuple, a value v is <<v>>.
NULL      == <<>>
Some(v)   == <<v>>
Caps      == {NULL} \cup {Some(c) : c \in 0..MaxCap}
Types     == {"yes", "maybe", "no"}

\* python truthiness of an optional integer: `if max_p:`
Truthy(x) == x # NULL /\ x[1] # 0

\* ------------------------------------------------------------------ tables
\* A table is a bag of rows (row ids and timestamps left out).
Where(table, P(_)) == [r \in {x \in DOMAIN table : P(x)} |-> table[r]]
Insert(table, row) == table (+) SetToBag({row})
RowCount(table)    == BagCardinality(table)

VARIABLES
    polls,             \* the polls row of the poll, <<>> once deleted
    poll_options,      \* option id -> max_participants
    poll_resources,    \* resource ids of the poll
    responses,         \* committed rows [option_id, participant_name, response_type]
    matrix_responses,  \* committed rows [resource_id, option_id, participant_name]
    lock,              \* the connection holding sqlite's write lock, 0 if none
    journal,           \* the writer's uncommitted tables
    now,               \* datetime.now()
    received,          \* requests received so far
    req                \* per request: position and locals of respond_poll

vars == <<polls, poll_options, poll_resources, responses, matrix_responses,
          lock, journal, now, received, req>>

\* ----------------------------------------------------------------- helpers
\* Mutant of get_option_max_participants:
\* `option['max_participants'] or poll['max_participants']`.
get_option_max_participants_or(option_max, poll) ==
    IF Truthy(option_max) THEN option_max ELSE poll.max_participants

\* get_option_max_participants: the option's cap when set, else the poll's.
get_option_max_participants(option_max, poll) ==
    IF option_max # NULL THEN option_max ELSE poll.max_participants

\* get_option_booking_count: SELECT COUNT(*) ... WHERE option_id = ? AND
\* response_type = 'yes'
get_option_booking_count(table, option_id) ==
    RowCount(Where(table, LAMBDA r : r.option_id = option_id
                                     /\ r.response_type = "yes"))

\* get_matrix_booking_counts: {(resource_id, option_id): COUNT(*)}
get_matrix_booking_counts(table) ==
    LET pairs == {<<r.resource_id, r.option_id>> : r \in DOMAIN table}
    IN  [pr \in pairs |->
            RowCount(Where(table, LAMBDA r : <<r.resource_id, r.option_id>> = pr))]

\* dict.get(key, 0)
Get(counts, key) == IF key \in DOMAIN counts THEN counts[key] ELSE 0

\* rows of one participant: WHERE poll_id = ? AND participant_name = ?
RowsOf(table, name)    == Where(table, LAMBDA r : r.participant_name = name)
\* Mutant of DeleteOf: the DELETE matches no row.
DeleteNone(table, name) == table
\* DELETE FROM ... WHERE poll_id = ? AND participant_name = ?
DeleteOf(table, name)  == Where(table, LAMBDA r : r.participant_name # name)

Committed == [responses |-> responses, matrix_responses |-> matrix_responses]

\* What connection p reads: its own uncommitted rows while it writes, else
\* the committed rows.
View(p) == IF lock = p THEN journal ELSE Committed

\* ------------------------------------------------------------------- forms
\* request.form: participant_name, option_<id> (standard), resource_<id>
\* (matrix, single choice; 0 is the empty selection), cell_<res>_<opt>
\* (matrix, multi choice: the checked cells).
NoOption   == [o \in OptionIds |-> "no"]
NoResource == [r \in {} |-> 0]

StandardForms(types) == {[option |-> f, resource |-> NoResource, cell |-> {}] :
                           f \in [OptionIds -> types]}
SingleForms(resources) ==
    {[option |-> NoOption, resource |-> f, cell |-> {}] :
        f \in [resources -> {0} \cup OptionIds]}
MultiForms(resources) ==
    {[option |-> NoOption, resource |-> NoResource, cell |-> c] :
        c \in SUBSET (resources \X OptionIds)}

\* The forms the page of the poll (view_poll) lets a browser post.
PageForms(poll, resources, types) ==
    IF poll.poll_type = "matrix"
    THEN IF poll.allow_multi_bookings THEN MultiForms(resources)
                                      ELSE SingleForms(resources)
    ELSE StandardForms(types)

\* request.form.get('option_<id>', 'no'), request.form.get('resource_<id>', '')
FormOption(form, o)   == IF o \in DOMAIN form.option THEN form.option[o] ELSE "no"
FormResource(form, r) == IF r \in DOMAIN form.resource THEN form.resource[r] ELSE 0

\* ---------------------------------------------------------------- requests
\* `before` (the committed tables when the request arrived at a server that
\* handles one request at a time) and `retry` (the request repeats the one
\* before it) are history, not state of the program.
Idle == [pc |-> "idle", name |-> "", form |-> [option |-> NoOption,
         resource |-> NoResource, cell |-> {}], poll |-> <<>>,
         existing |-> FALSE, existing_pairs |-> {}, options |-> <<>>,
         resources |-> {}, selections |-> <<>>, idx |-> 0,
         current_bookings |-> 0, result |-> "", before |-> <<>>,
         retry |-> FALSE]

\* return redirect(...): the handler is over, its locals are gone, the
\* connection is still open.
Finish(r, result) ==
    [r EXCEPT !.pc = "done", !.result = result, !.options = <<>>,
              !.resources = {}, !.idx = 0, !.current_bookings = 0]

Return(p, result) == req' = [req EXCEPT ![p] = Finish(req[p], result)]

NoWrite == UNCHANGED <<responses, matrix_responses, lock, journal>>
NoAdmin == UNCHANGED <<polls, poll_options, poll_resources, now>>
Same    == UNCHANGED received

\* Mutant of Execute: a connection in autocommit mode, every statement is
\* committed as it runs.
ExecuteAutocommit(p, tables) ==
    /\ lock = 0
    /\ responses' = tables.responses
    /\ matrix_responses' = tables.matrix_responses
    /\ UNCHANGED <<lock, journal>>

\* A DML statement of connection p that leaves its tables as `tables`: the
\* first one opens the transaction and takes the write lock (it waits while
\* another connection holds it); nothing is committed.
Execute(p, tables) ==
    /\ lock \in {0, p}
    /\ lock' = p
    /\ journal' = tables
    /\ UNCHANGED <<responses, matrix_responses>>

\* A browser posts the form of the poll's page: respond_poll starts on a
\* connection of its own (get_db, lines 21-25).
Post(p, types, before) ==
    /\ req[p].pc = "idle"
    /\ polls # <<>>
    /\ \E n \in Names, f \in PageForms(polls[1], poll_resources, types) :
          req' = [req EXCEPT ![p] = [Idle EXCEPT !.pc = "poll", !.name = n,
                                                 !.form = f, !.before = before]]
    /\ NoWrite /\ NoAdmin

\* A request arrives while others may be under way (a threaded server).
Receive(p) ==
    /\ received < MaxRequests
    /\ received' = received + 1
    /\ Post(p, {"yes", "no"}, <<>>)

\* A request arrives at a server that handles one request at a time.
ReceiveAlone(p) ==
    /\ \A q \in Procs : req[q].pc = "idle"
    /\ UNCHANGED received
    /\ Post(p, Types, Committed)

\* Lines 241-259: the poll row, the gate, the participant name.
ReadPoll(p) ==
    /\ req[p].pc = "poll"
    /\ NoWrite /\ NoAdmin /\ Same
    /\ IF polls = <<>> \/ ~polls[1].is_active
       THEN Return(p, "unavailable")
       ELSE LET poll == polls[1] IN
            IF poll.expires_at # NULL /\ poll.expires_at[1] < now
            THEN Return(p, "expired")
            ELSE IF req[p].name = ""
            THEN Return(p, "noname")
            ELSE req' = [req EXCEPT ![p].poll = poll,
                            ![p].pc = IF poll.poll_type = "matrix"
                                      THEN "resources" ELSE "existing"]

\* ----------------------------------------------------- standard poll steps
\* Lines 350-354: the option is checked when the form says 'yes' and the cap
\* is truthy (`if max_p:`).
StdChecked(r, o) ==
    /\ FormOption(r.form, o) = "yes"
    /\ Truthy(get_option_max_participants(r.options[o], r.poll))

\* The next option at or after i that the loop of line 350 queries, or
\* NumOptions + 1 when the loop is over.
StdNextChecked(r, i) ==
    IF \E o \in i..NumOptions : StdChecked(r, o)
    THEN CHOOSE o \in i..NumOptions :
            StdChecked(r, o) /\ \A o2 \in i..(o - 1) : ~StdChecked(r, o2)
    ELSE NumOptions + 1

\* Where the handler stands once the loop of line 350 has reached option i.
StdAfterCheck(r, i) ==
    LET j == StdNextChecked(r, i) IN
    IF j <= NumOptions THEN [r EXCEPT !.pc = "count", !.idx = j]
    ELSE IF r.existing /\ r.poll.allow_changes
         THEN [r EXCEPT !.pc = "delete", !.idx = 1]
         ELSE [r EXCEPT !.pc = "insert", !.idx = 1]

\* Mutant of StdReadExisting: the name's old rows are deleted, and the
\* DELETE committed, before the capacity check.
StdReadExistingEagerDelete(p) ==
    /\ req[p].pc = "existing"
    /\ NoAdmin /\ Same
    /\ lock = 0
    /\ UNCHANGED <<matrix_responses, lock, journal>>
    /\ LET existing == RowsOf(responses, req[p].name) # EmptyBag IN
       IF existing /\ ~req[p].poll.allow_changes
       THEN UNCHANGED responses /\ Return(p, "nochanges")
       ELSE /\ responses' = DeleteOf(responses, req[p].name)
            /\ req' = [req EXCEPT ![p].existing = existing,
                                  ![p].pc = "options"]

\* Mutant of StdReadExisting: the allow_changes check is left out.
StdReadExistingUnchecked(p) ==
    /\ req[p].pc = "existing"
    /\ NoWrite /\ NoAdmin /\ Same
    /\ req' = [req EXCEPT ![p].existing =
                              RowsOf(View(p).responses, req[p].name) # EmptyBag,
                          ![p].pc = "options"]

\* Lines 337-344: SELECT ... fetchone(): has the name any row, and the
\* allow_changes check.
StdReadExisting(p) ==
    /\ req[p].pc = "existing"
    /\ NoWrite /\ NoAdmin /\ Same
    /\ LET existing == RowsOf(View(p).responses, req[p].name) # EmptyBag IN
       IF existing /\ ~req[p].poll.allow_changes
       THEN Return(p, "nochanges")
       ELSE req' = [req EXCEPT ![p].existing = existing, ![p].pc = "options"]

\* Line 347: the options of the poll, then the loop of line 350 up to its
\* first query.
StdReadOptions(p) ==
    /\ req[p].pc = "options"
    /\ NoWrite /\ NoAdmin /\ Same
    /\ req' = [req EXCEPT ![p] =
                  StdAfterCheck([req[p] EXCEPT !.options = poll_options], 1)]

\* Mutant of StdCompare: `>` for `>=`.
StdCompareOffByOne(p, r) ==
    IF r.current_bookings >
         get_option_max_participants(r.options[r.idx], r.poll)[1]
    THEN Return(p, "full")
    ELSE req' = [req EXCEPT ![p] = StdAfterCheck(r, r.idx + 1)]

\* Line 364: `if current_bookings >= max_p` for option idx, then the loop
\* goes on.
StdCompare(p, r) ==
    IF r.current_bookings >=
         get_option_max_participants(r.options[r.idx], r.poll)[1]
    THEN Return(p, "full")
    ELSE req' = [req EXCEPT ![p] = StdAfterCheck(r, r.idx + 1)]

\* Line 355: get_option_booking_count(option['id']).
StdReadCount(p) ==
    /\ req[p].pc = "count"
    /\ NoWrite /\ NoAdmin /\ Same
    /\ LET r == [req[p] EXCEPT !.current_bookings =
                    get_option_booking_count(View(p).responses, req[p].idx)]
       IN IF r.existing
          THEN req' = [req EXCEPT ![p] = [r EXCEPT !.pc = "old"]]
          ELSE StdCompare(p, r)

\* Mutant of StdReadOld: the name's own 'yes' is not taken off the count.
StdReadOldNoDiscount(p) ==
    /\ req[p].pc = "old"
    /\ NoWrite /\ NoAdmin /\ Same
    /\ StdCompare(p, req[p])

\* Mutant of StdReadOld: any stored row of the name for the option is taken
\* off the count, whatever its response_type.
StdReadOldAnyType(p) ==
    /\ req[p].pc = "old"
    /\ NoWrite /\ NoAdmin /\ Same
    /\ LET rows == Where(View(p).responses,
                         LAMBDA x : x.option_id = req[p].idx
                                    /\ x.participant_name = req[p].name)
       IN IF rows = EmptyBag
          THEN StdCompare(p, req[p])
          ELSE StdCompare(p, [req[p] EXCEPT !.current_bookings = @ - 1])

\* Lines 358-363: the name's own row of the option (fetchone: any one of
\* them when there are several); a 'yes' is taken off the count.
StdReadOld(p) ==
    /\ req[p].pc = "old"
    /\ NoWrite /\ NoAdmin /\ Same
    /\ LET rows == Where(View(p).responses,
                         LAMBDA x : x.option_id = req[p].idx
                                    /\ x.participant_name = req[p].name)
       IN IF rows = EmptyBag
          THEN StdCompare(p, req[p])
          ELSE \E old \in DOMAIN rows :
                 StdCompare(p, IF old.response_type = "yes"
                               THEN [req[p] EXCEPT !.current_bookings = @ - 1]
                               ELSE req[p])

\* Lines 369-373: DELETE FROM responses WHERE ... participant_name = ?
StdDelete(p) ==
    /\ req[p].pc = "delete"
    /\ NoAdmin /\ Same
    /\ Execute(p, [View(p) EXCEPT !.responses = DeleteOf(@, req[p].name)])
    /\ req' = [req EXCEPT ![p].pc = "insert", ![p].idx = 1]

\* Mutant of StdInsert: no row is stored for 'no'.
StdInsertSkipNo(p) ==
    /\ req[p].pc = "insert"
    /\ NoAdmin /\ Same
    /\ LET o == req[p].idx
           response_type == FormOption(req[p].form, o)
       IN IF response_type \in {"yes", "maybe"}
          THEN Execute(p, [View(p) EXCEPT !.responses =
                  Insert(@, [option_id |-> o, participant_name |-> req[p].name,
                             response_type |-> response_type])])
          ELSE NoWrite
    /\ req' = [req EXCEPT ![p].idx = @ + 1,
                          ![p].pc = IF req[p].idx = NumOptions
                                    THEN "commit" ELSE "insert"]

\* Lines 376-382: one INSERT per option; after the last, line 384 is next.
StdInsert(p) ==
    /\ req[p].pc = "insert"
    /\ NoAdmin /\ Same
    /\ LET o == req[p].idx
           response_type == FormOption(req[p].form, o)
       IN IF response_type \in Types
          THEN Execute(p, [View(p) EXCEPT !.responses =
                  Insert(@, [option_id |-> o, participant_name |-> req[p].name,
                             response_type |-> response_type])])
          ELSE NoWrite
    /\ req' = [req EXCEPT ![p].idx = @ + 1,
                          ![p].pc = IF req[p].idx = NumOptions
                                    THEN "commit" ELSE "insert"]

\* ------------------------------------------------------- matrix poll steps
\* The pairs of a set as a list, by resource and then by option (the order
\* of the loops over `resources` and `options`).
PairBefore(a, b) == a[1] < b[1] \/ (a[1] = b[1] /\ a[2] < b[2])
RECURSIVE PairList(_)
PairList(S) ==
    IF S = {} THEN <<>>
    ELSE LET first == CHOOSE a \in S : \A b \in S \ {a} : PairBefore(a, b)
         IN  <<first>> \o PairList(S \ {first})

\* Lines 280-295: the selections of the form; only the resources of the poll
\* are looked up, and in multi mode only its options.
Selections(poll, resources, options, form) ==
    IF poll.allow_multi_bookings
    THEN PairList({c \in form.cell :
                     c[1] \in resources /\ c[2] \in DOMAIN options})
    ELSE PairList({<<res, FormResource(form, res)>> :
                     res \in {x \in resources : FormResource(form, x) # 0}})

\* Mutant of DuplicateSelection: the resource ids are compared.
DuplicateResource(selections) ==
    \E i, j \in DOMAIN selections : i # j /\ selections[i][1] = selections[j][1]

\* Lines 297-302: an option id selected more than once.
DuplicateSelection(selections) ==
    \E i, j \in DOMAIN selections : i # j /\ selections[i][2] = selections[j][2]

\* Mutant of MatrixFull: `>` for `>=`.
MatrixFullOffByOne(poll, options, selections, existing_pairs, booking_counts) ==
    \E i \in DOMAIN selections :
        LET res_id == selections[i][1]
            opt_id == selections[i][2]
        IN  /\ opt_id \in DOMAIN options
            /\ LET max_p == get_option_max_participants(options[opt_id], poll)
                    current_bookings ==
                        Get(booking_counts, <<res_id, opt_id>>)
                        - (IF <<res_id, opt_id>> \in existing_pairs THEN 1 ELSE 0)
                IN  Truthy(max_p) /\ current_bookings > max_p[1]

\* Lines 307-318: a selected pair whose option is known, capped (`if max_p:`)
\* and booked up, the participant's own booking of the pair not counted.
MatrixFull(poll, options, selections, existing_pairs, booking_counts) ==
    \E i \in DOMAIN selections :
        LET res_id == selections[i][1]
            opt_id == selections[i][2]
        IN  /\ opt_id \in DOMAIN options
            /\ LET max_p == get_option_max_participants(options[opt_id], poll)
                    current_bookings ==
                        Get(booking_counts, <<res_id, opt_id>>)
                        - (IF <<res_id, opt_id>> \in existing_pairs THEN 1 ELSE 0)
                IN  Truthy(max_p) /\ current_bookings >= max_p[1]

\* Line 262: get_poll_resources(poll['id']).
MatReadResources(p) ==
    /\ req[p].pc = "resources"
    /\ NoWrite /\ NoAdmin /\ Same
    /\ req' = [req EXCEPT ![p].resources = poll_resources,
                          ![p].pc = "m_options"]

\* Lines 263-266: the options of the poll.
MatReadOptions(p) ==
    /\ req[p].pc = "m_options"
    /\ NoWrite /\ NoAdmin /\ Same
    /\ req' = [req EXCEPT ![p].options = poll_options, ![p].pc = "bookings"]

\* Mutant of MatReadExisting: the duplicate check is made in single-choice
\* mode only.
MatReadExistingSingleOnly(p) ==
    /\ req[p].pc = "bookings"
    /\ NoWrite /\ NoAdmin /\ Same
    /\ LET existing_bookings == RowsOf(View(p).matrix_responses, req[p].name)
           has_existing == existing_bookings # EmptyBag
           existing_pairs == {<<x.resource_id, x.option_id>> :
                                x \in DOMAIN existing_bookings}
           selections == Selections(req[p].poll, req[p].resources,
                                    req[p].options, req[p].form)
           r == [req[p] EXCEPT !.existing = has_existing,
                               !.existing_pairs = existing_pairs]
       IN IF has_existing /\ ~req[p].poll.allow_changes
          THEN Return(p, "nochanges")
          ELSE IF ~req[p].poll.allow_multi_bookings
                  /\ DuplicateSelection(selections)
          THEN req' = [req EXCEPT ![p] =
                  Finish([r EXCEPT !.selections = selections], "duplicate")]
          ELSE req' = [req EXCEPT ![p] =
                  [r EXCEPT !.selections = selections, !.pc = "counts"]]

\* Lines 268-302: the name's bookings, the allow_changes check, the
\* selections of the form and the duplicate check.
MatReadExisting(p) ==
    /\ req[p].pc = "bookings"
    /\ NoWrite /\ NoAdmin /\ Same
    /\ LET existing_bookings == RowsOf(View(p).matrix_responses, req[p].name)
           has_existing == existing_bookings # EmptyBag
           existing_pairs == {<<x.resource_id, x.option_id>> :
                                x \in DOMAIN existing_bookings}
           selections == Selections(req[p].poll, req[p].resources,
                                    req[p].options, req[p].form)
           r == [req[p] EXCEPT !.existing = has_existing,
                               !.existing_pairs = existing_pairs]
       IN IF has_existing /\ ~req[p].poll.allow_changes
          THEN Return(p, "nochanges")
          ELSE IF DuplicateSelection(selections)
          THEN req' = [req EXCEPT ![p] =
                  Finish([r EXCEPT !.selections = selections], "duplicate")]
          ELSE req' = [req EXCEPT ![p] =
                  [r EXCEPT !.selections = selections, !.pc = "counts"]]

\* Mutant of MatReadCounts: the DELETE is skipped when nothing is selected.
MatReadCountsKeep(p) ==
    /\ req[p].pc = "counts"
    /\ NoWrite /\ NoAdmin /\ Same
    /\ LET booking_counts == get_matrix_booking_counts(View(p).matrix_responses)
           r == req[p]
       IN IF MatrixFull(r.poll, r.options, r.selections, r.existing_pairs,
                        booking_counts)
          THEN Return(p, "full")
          ELSE req' = [req EXCEPT ![p].idx = 1, ![p].pc =
                  IF r.selections = <<>> THEN "commit"
                  ELSE IF r.existing /\ r.poll.allow_changes THEN "m_delete"
                  ELSE "m_insert"]

\* Lines 304-318: get_matrix_booking_counts and the capacity check; line 320
\* or 326 is next.
MatReadCounts(p) ==
    /\ req[p].pc = "counts"
    /\ NoWrite /\ NoAdmin /\ Same
    /\ LET booking_counts == get_matrix_booking_counts(View(p).matrix_responses)
           r == req[p]
       IN IF MatrixFull(r.poll, r.options, r.selections, r.existing_pairs,
                        booking_counts)
          THEN Return(p, "full")
          ELSE req' = [req EXCEPT ![p].idx = 1, ![p].pc =
                  IF r.existing /\ r.poll.allow_changes THEN "m_delete"
                  ELSE IF r.selections # <<>> THEN "m_insert"
                  ELSE "commit"]

\* Mutant of MatDelete: only the rows of the selected pairs are deleted.
MatDeleteSelected(p) ==
    /\ req[p].pc = "m_delete"
    /\ NoAdmin /\ Same
    /\ Execute(p, [View(p) EXCEPT !.matrix_responses =
          Where(@, LAMBDA x :
             ~(/\ x.participant_name = req[p].name
               /\ \E i \in DOMAIN req[p].selections :
                     req[p].selections[i] = <<x.resource_id, x.option_id>>))])
    /\ req' = [req EXCEPT ![p].pc = IF req[p].selections # <<>>
                                    THEN "m_insert" ELSE "commit"]

\* Lines 320-324: DELETE FROM matrix_responses WHERE ... participant_name = ?
MatDelete(p) ==
    /\ req[p].pc = "m_delete"
    /\ NoAdmin /\ Same
    /\ Execute(p, [View(p) EXCEPT !.matrix_responses = DeleteOf(@, req[p].name)])
    /\ req' = [req EXCEPT ![p].pc = IF req[p].selections # <<>>
                                    THEN "m_insert" ELSE "commit"]

\* Lines 326-330: one INSERT per selection; after the last, line 332 is next.
MatInsert(p) ==
    /\ req[p].pc = "m_insert"
    /\ NoAdmin /\ Same
    /\ LET sel == req[p].selections[req[p].idx] IN
       Execute(p, [View(p) EXCEPT !.matrix_responses =
          Insert(@, [resource_id |-> sel[1], option_id |-> sel[2],
                     participant_name |-> req[p].name])])
    /\ req' = [req EXCEPT ![p].idx = @ + 1,
                          ![p].pc = IF req[p].idx = Len(req[p].selections)
                                    THEN "commit" ELSE "m_insert"]

\* ------------------------------------------------------ end of the request
\* db.commit() (lines 332, 384): the transaction's rows replace the
\* committed ones and the lock is released; without a transaction nothing
\* happens.
Commit(p) ==
    /\ req[p].pc = "commit"
    /\ NoAdmin /\ Same
    /\ IF lock = p
       THEN /\ responses' = journal.responses
            /\ matrix_responses' = journal.matrix_responses
            /\ lock' = 0
            /\ journal' = <<>>
       ELSE NoWrite
    /\ Return(p, "ok")

\* Mutant of close_db: closing the connection commits the open transaction.
close_db_commit(p) ==
    /\ req[p].pc = "done"
    /\ NoAdmin /\ Same
    /\ responses' = IF lock = p THEN journal.responses ELSE responses
    /\ matrix_responses' = IF lock = p THEN journal.matrix_responses
                           ELSE matrix_responses
    /\ lock' = IF lock = p THEN 0 ELSE lock
    /\ journal' = IF lock = p THEN <<>> ELSE journal
    /\ req' = [req EXCEPT ![p] = Idle]

\* close_db (lines 28-32): the connection is closed; a transaction that was
\* not committed is rolled back.
close_db(p) ==
    /\ req[p].pc = "done"
    /\ NoAdmin /\ Same
    /\ UNCHANGED <<responses, matrix_responses>>
    /\ lock' = IF lock = p THEN 0 ELSE lock
    /\ journal' = IF lock = p THEN <<>> ELSE journal
    /\ req' = [req EXCEPT ![p] = Idle]

\* The browser posts the form of a stored submission once more, right after
\* the first: the first request's connection is closed (close_db), the
\* second runs on a new one.
Resubmit(p) ==
    /\ req[p].pc = "done"
    /\ req[p].result = "ok"
    /\ ~req[p].retry
    /\ lock = 0
    /\ req' = [req EXCEPT ![p] = [Idle EXCEPT !.pc = "poll", !.name = req[p].name,
                                              !.form = req[p].form,
                                              !.before = Committed,
                                              !.retry = TRUE]]
    /\ NoWrite /\ NoAdmin /\ Same

\* ---------------------------------------------------------- specifications
\* The polls rows create_poll (lines 573-580) leaves; a matrix poll never
\* has max_participants NULL (lines 529-532).
Polls(poll_type, caps, multi) ==
    [poll_type : {poll_type}, allow_changes : BOOLEAN,
     max_participants : caps, is_active : {TRUE}, expires_at : {NULL},
     allow_multi_bookings : multi]

InitTables ==
    /\ responses = EmptyBag
    /\ matrix_responses = EmptyBag
    /\ lock = 0
    /\ journal = <<>>
    /\ now = 0
    /\ received = 0
    /\ req = [p \in Procs |-> Idle]

\* Overlapping requests: a poll whose options all take the poll's cap.
Init ==
    /\ InitTables
    /\ \E c \in 1..MaxCap :
         \/ /\ polls \in {<<row>> : row \in Polls("standard", {Some(c)}, {FALSE})}
            /\ poll_resources = {}
         \/ /\ polls \in {<<row>> : row \in Polls("matrix", {Some(c)}, {FALSE})}
            /\ poll_resources = ResourceIds
    /\ poll_options = [o \in OptionIds |-> NULL]

\* One request at a time: every cap of the poll and of its options.
InitSerial ==
    /\ InitTables
    /\ \/ /\ polls \in {<<row>> : row \in
                  Polls("standard", {NULL, Some(MaxCap)}, {FALSE})}
          /\ poll_resources = {}
       \/ /\ polls \in {<<row>> : row \in
                  Polls("matrix", {Some(MaxCap)}, BOOLEAN)}
          /\ poll_resources = ResourceIds
    /\ poll_options \in [OptionIds -> Caps]

Standard(p) ==
    \/ StdReadExisting(p)
    \/ StdReadOptions(p)
    \/ StdReadCount(p)
    \/ StdReadOld(p)
    \/ StdDelete(p)
    \/ StdInsert(p)

Matrix(p) ==
    \/ MatReadResources(p)
    \/ MatReadOptions(p)
    \/ MatReadExisting(p)
    \/ MatReadCounts(p)
    \/ MatDelete(p)
    \/ MatInsert(p)

Next ==
    \E p \in Procs :
        \/ Receive(p)
        \/ ReadPoll(p)
        \/ Standard(p)
        \/ Matrix(p)
        \/ Commit(p)
        \/ close_db(p)

Spec == Init /\ [][Next]_vars

\* A server with one worker: every request runs on the worker's connection.
NextSerial ==
    LET p == CHOOSE q \in Procs : TRUE IN
        \/ ReceiveAlone(p)
        \/ Resubmit(p)
        \/ ReadPoll(p)
        \/ Standard(p)
        \/ Matrix(p)
        \/ Commit(p)
        \/ close_db(p)

SpecSerial == InitSerial /\ [][NextSerial]_vars

\* ------------------------------------------------------------------ claims
ThePoll   == polls[1]
Cap(o)    == get_option_max_participants(poll_options[o], ThePoll)
IsStandard == polls # <<>> /\ ThePoll.poll_type = "standard"
IsMatrix   == polls # <<>> /\ ThePoll.poll_type = "matrix"
PairCount(table, res, opt) ==
    RowCount(Where(table, LAMBDA r : r.resource_id = res /\ r.option_id = opt))

HeldYes(table, name, o) ==
    \E r \in DOMAIN table : /\ r.option_id = o /\ r.participant_name = name
                             /\ r.response_type = "yes"

\* The participant names that hold a row of the option / of the pair.
YesNames(o) == {n \in Names : HeldYes(responses, n, o)}
PairNames(res, o) ==
    {n \in Names : \E r \in DOMAIN matrix_responses :
        r.resource_id = res /\ r.option_id = o /\ r.participant_name = n}

\* C1: in a standard poll, the committed 'yes' rows of an option whose
\* effective cap is an integer C never exceed C, whatever requests ran and
\* however they overlapped.  Rows are counted by participant (a name that
\* holds several 'yes' rows of the option counts once), so a violation is
\* C + 1 different participants holding 'yes'.
C1_StandardCapacity ==
    IsStandard =>
        \A o \in OptionIds :
            Cap(o) # NULL => Cardinality(YesNames(o)) <= Cap(o)[1]

\* C2: in a matrix poll, the committed rows of a (resource, option) pair
\* whose option has an integer effective cap C never exceed C, counted by
\* participant as in C1.
C2_MatrixCapacity ==
    IsMatrix =>
        \A res \in poll_resources, o \in OptionIds :
            Cap(o) # NULL => Cardinality(PairNames(res, o)) <= Cap(o)[1]


\* What respond_poll does to `tables` when nothing else runs before it is
\* over: the result and the tables it leaves (the steps above, in one go).
\* The poll is active and has no expiry in these specifications.
StdRows(name, form) ==
    SetToBag({[option_id |-> o, participant_name |-> name,
               response_type |-> FormOption(form, o)] : o \in OptionIds})
MatRows(name, selections) ==
    SetToBag({[resource_id |-> selections[i][1], option_id |-> selections[i][2],
               participant_name |-> name] : i \in DOMAIN selections})
HeldPairs(table, name) ==
    {<<r.resource_id, r.option_id>> : r \in DOMAIN RowsOf(table, name)}

\* An option requested 'yes' whose cap is an integer other than 0 and
\* whose 'yes' rows, the name's own not counted, have reached it.
StdOptionExceeds(tables, name, form, o) ==
    /\ FormOption(form, o) = "yes"
    /\ Truthy(Cap(o))
    /\ get_option_booking_count(tables.responses, o)
         - (IF HeldYes(tables.responses, name, o) THEN 1 ELSE 0) >= Cap(o)[1]
StdExceeds(tables, name, form) ==
    \E o \in OptionIds : StdOptionExceeds(tables, name, form, o)

\* A selected pair whose option's cap is an integer other than 0 and whose
\* rows, the name's own not counted, have reached it.
MatPairExceeds(tables, name, res, o) ==
    /\ o \in OptionIds
    /\ Truthy(Cap(o))
    /\ PairCount(tables.matrix_responses, res, o)
         - (IF <<res, o>> \in HeldPairs(tables.matrix_responses, name)
            THEN 1 ELSE 0) >= Cap(o)[1]
MatExceeds(tables, name, selections) ==
    \E i \in DOMAIN selections :
        MatPairExceeds(tables, name, selections[i][1], selections[i][2])

FormSelections(form) ==
    Selections(ThePoll, poll_resources, poll_options, form)

Serve(tables, name, form) ==
    IF IsStandard
    THEN LET existing == RowsOf(tables.responses, name) # EmptyBag IN
         IF existing /\ ~ThePoll.allow_changes
         THEN [result |-> "nochanges", tables |-> tables]
         ELSE IF StdExceeds(tables, name, form)
         THEN [result |-> "full", tables |-> tables]
         ELSE [result |-> "ok", tables |-> [tables EXCEPT !.responses =
                  DeleteOf(@, name) (+) StdRows(name, form)]]
    ELSE LET existing == RowsOf(tables.matrix_responses, name) # EmptyBag
             selections == FormSelections(form)
         IN
         IF existing /\ ~ThePoll.allow_changes
         THEN [result |-> "nochanges", tables |-> tables]
         ELSE IF DuplicateSelection(selections)
         THEN [result |-> "duplicate", tables |-> tables]
         ELSE IF MatExceeds(tables, name, selections)
         THEN [result |-> "full", tables |-> tables]
         ELSE [result |-> "ok", tables |-> [tables EXCEPT !.matrix_responses =
                  DeleteOf(@, name) (+) MatRows(name, selections)]]

\* At a server that handles one request at a time, every request ends as
\* Serve says.
ServeIsTheHandler ==
    \A p \in Procs :
        req[p].pc = "done" =>
            LET s == Serve(req[p].before, req[p].name, req[p].form) IN
            req[p].result = s.result /\ Committed = s.tables

\* C3: two requests to one poll whose steps interleave end as one of the two
\* serial orders would: the result of each and the committed rows.  (Here:
\* the first two requests the server receives, from empty tables.)
C3_Serializable ==
    (received = 2 /\ \A p \in Procs : req[p].pc = "done") =>
        \E p, q \in Procs :
            /\ p # q
            /\ LET first  == Serve([responses |-> EmptyBag,
                                    matrix_responses |-> EmptyBag],
                                   req[p].name, req[p].form)
                   second == Serve(first.tables, req[q].name, req[q].form)
               IN  /\ req[p].result = first.result
                   /\ req[q].result = second.result
                   /\ Committed = second.tables

\* The request passed the gate and the name check (lines 241-259).
Admitted(r) == r.pc = "done" /\ r.result \notin {"unavailable", "expired", "noname"}
\* The rows the name had when the request arrived.
HadRows(r) ==
    IF IsStandard THEN RowsOf(r.before.responses, r.name) # EmptyBag
    ELSE RowsOf(r.before.matrix_responses, r.name) # EmptyBag
\* The request is turned away before the capacity check.
TurnedAway(r) ==
    \/ HadRows(r) /\ ~ThePoll.allow_changes
    \/ IsMatrix /\ DuplicateSelection(FormSelections(r.form))
Exceeds(r) ==
    IF IsStandard THEN StdExceeds(r.before, r.name, r.form)
    ELSE MatExceeds(r.before, r.name, FormSelections(r.form))

\* C4: a submission with an option requested 'yes' (standard) or a selected
\* pair (matrix) that fails the capacity check is rejected and writes
\* nothing: both tables are as they were when it arrived.
C4_AllOrNothing ==
    \A p \in Procs :
        LET r == req[p] IN
        (Admitted(r) /\ ~TurnedAway(r) /\ Exceeds(r)) =>
            (r.result = "full" /\ Committed = r.before)

\* C4 happens: a participant with stored rows is rejected for one option
\* although another option of the same form was admissible on its own.
C4_Witness ==
    \E p \in Procs :
        LET r == req[p] IN
        /\ IsStandard /\ Admitted(r) /\ r.result = "full" /\ HadRows(r)
        /\ \E o \in OptionIds :
              /\ FormOption(r.form, o) = "yes"
              /\ ~StdOptionExceeds(r.before, r.name, r.form, o)

\* C5: with allow_changes false, a submission under a name that has a stored
\* row is rejected ("nochanges") and the tables stay as they were.
C5_NoChange ==
    \A p \in Procs :
        LET r == req[p] IN
        (Admitted(r) /\ ~ThePoll.allow_changes /\ HadRows(r)) =>
            (r.result = "nochanges" /\ Committed = r.before)

C5_Witness ==
    \E p \in Procs :
        LET r == req[p] IN
        /\ IsMatrix /\ Admitted(r) /\ r.result = "nochanges" /\ HadRows(r)
        /\ FormSelections(r.form) # <<>>

\* The name holds exactly the rows of the form it posts.
HoldsSelection(r) ==
    IF IsStandard
    THEN RowsOf(r.before.responses, r.name) = StdRows(r.name, r.form)
    ELSE /\ FormSelections(r.form) # <<>>
         /\ RowsOf(r.before.matrix_responses, r.name)
              = MatRows(r.name, FormSelections(r.form))
\* No option / pair the form asks for is booked beyond its cap.
WithinCaps(r) ==
    IF IsStandard
    THEN \A o \in OptionIds :
            (FormOption(r.form, o) = "yes" /\ Truthy(Cap(o))) =>
                get_option_booking_count(r.before.responses, o) <= Cap(o)[1]
    ELSE LET sel == FormSelections(r.form) IN
         \A i \in DOMAIN sel :
            Truthy(Cap(sel[i][2])) =>
                PairCount(r.before.matrix_responses, sel[i][1], sel[i][2])
                    <= Cap(sel[i][2])[1]
\* The form asks for a booked-up option / pair the name does not hold.
AsksForFullOther(r) ==
    IF IsStandard
    THEN \E o \in OptionIds :
            /\ FormOption(r.form, o) = "yes" /\ Truthy(Cap(o))
            /\ ~HeldYes(r.before.responses, r.name, o)
            /\ get_option_booking_count(r.before.responses, o) >= Cap(o)[1]
    ELSE LET sel == FormSelections(r.form) IN
         /\ ~DuplicateSelection(sel)
         /\ \E i \in DOMAIN sel :
              /\ Truthy(Cap(sel[i][2]))
              /\ sel[i] \notin HeldPairs(r.before.matrix_responses, r.name)
              /\ PairCount(r.before.matrix_responses, sel[i][1], sel[i][2])
                    >= Cap(sel[i][2])[1]

\* C6: with allow_changes true, a participant who posts the selection they
\* already hold is accepted although an option / pair of it is booked up
\* to its cap; a booked-up option / pair they do not hold is refused,
\* whatever else they hold.
C6_SelfExclusion ==
    \A p \in Procs :
        LET r == req[p] IN
        (Admitted(r) /\ ThePoll.allow_changes) =>
            /\ (HoldsSelection(r) /\ WithinCaps(r)) => r.result = "ok"
            /\ AsksForFullOther(r) => r.result = "full"

\* C6 happens: the name held 'yes' on an option booked up to its cap, and
\* posted the same form again.
C6_Witness ==
    \E p \in Procs :
        LET r == req[p] IN
        /\ IsStandard /\ Admitted(r) /\ ThePoll.allow_changes
        /\ HoldsSelection(r) /\ r.result = "ok"
        /\ \E o \in OptionIds :
              /\ HeldYes(r.before.responses, r.name, o)
              /\ Truthy(Cap(o))
              /\ get_option_booking_count(r.before.responses, o) = Cap(o)[1]

\* C7: with allow_changes true, the form of a stored submission posted once
\* more, right after, is stored too and leaves both tables as the first
\* submission left them, each row of the name once.
C7_Idempotent ==
    \A p \in Procs :
        LET r == req[p] IN
        (Admitted(r) /\ r.retry /\ ThePoll.allow_changes) =>
            /\ r.result = "ok"
            /\ Committed = r.before
            /\ \A row \in DOMAIN RowsOf(responses, r.name) : responses[row] = 1
            /\ \A row \in DOMAIN RowsOf(matrix_responses, r.name) :
                   matrix_responses[row] = 1

C7_Witness ==
    \E p \in Procs :
        LET r == req[p] IN
        /\ Admitted(r) /\ r.retry /\ ThePoll.allow_changes /\ r.result = "ok"
        /\ IsMatrix /\ ThePoll.allow_multi_bookings
        /\ Len(FormSelections(r.form)) = 2

\* C8: in single-choice mode a form that selects one option id for two
\* resources of the poll is rejected as a duplicate selection, whatever the
\* caps and counts, and the tables stay as they were.
C8_DuplicateSelection ==
    \A p \in Procs :
        LET r == req[p] IN
        (/\ Admitted(r) /\ IsMatrix /\ ~ThePoll.allow_multi_bookings
         /\ ~(HadRows(r) /\ ~ThePoll.allow_changes)
         /\ \E r1, r2 \in poll_resources :
               /\ r1 # r2
               /\ FormResource(r.form, r1) # 0
               /\ FormResource(r.form, r1) = FormResource(r.form, r2))
        => (r.result = "duplicate" /\ Committed = r.before)

\* C8 happens: the duplicate selection names a pair that is booked up, so
\* the capacity check would have refused the form as well.
C8_Witness ==
    \E p \in Procs :
        LET r == req[p] IN
        /\ Admitted(r) /\ r.result = "duplicate"
        /\ MatExceeds(r.before, r.name, FormSelections(r.form))

\* C9: in a matrix poll in single-choice mode no name ever holds two
\* committed rows with one option id and different resource ids.
C9_OneResourcePerOption ==
    (IsMatrix /\ ~ThePoll.allow_multi_bookings) =>
        \A r1, r2 \in DOMAIN matrix_responses :
            (r1.participant_name = r2.participant_name
             /\ r1.option_id = r2.option_id) => r1.resource_id = r2.resource_id

\* What a request that is about to commit wrote: the DELETE of the name's
\* rows when it found some and changes are allowed, and all its INSERTs.
Replaced(tables, r) ==
    LET kept(table) == IF r.existing /\ r.poll.allow_changes
                       THEN DeleteOf(table, r.name) ELSE table
    IN  IF r.poll.poll_type = "matrix"
        THEN [tables EXCEPT !.matrix_responses =
                kept(@) (+) MatRows(r.name, r.selections)]
        ELSE [tables EXCEPT !.responses = kept(@) (+) StdRows(r.name, r.form)]

\* C10: the committed tables, which every other connection reads, change
\* only by the whole write of one request at once: its DELETE and all its
\* INSERTs together, never the DELETE alone or a part of the INSERTs.
C10_AtomicReplace ==
    [][Committed' # Committed =>
         \E p \in Procs :
            /\ req[p].pc = "commit"
            /\ req'[p].pc = "done"
            /\ Committed' = Replaced(Committed, req[p])]_vars

\* C10 happens: a resubmission under allow_changes has replaced the name's
\* stored rows by the rows of its form.
C10_Witness ==
    \E p \in Procs :
        LET r == req[p] IN
        /\ r.pc = "done" /\ r.result = "ok" /\ r.existing /\ r.poll.allow_changes
        /\ r.poll.poll_type = "standard"
        /\ RowsOf(responses, r.name) = StdRows(r.name, r.form)
        /\ \E o \in OptionIds : FormOption(r.form, o) = "yes"

\* ------------------------------------------------- administrator and clock
MaxTime       == 2   \* datetime.now() runs over 0..MaxTime
MaxResourceId == 3   \* largest poll_resources id AUTOINCREMENT hands out
MaxCells      == 2   \* checked cells of a hand-made multi choice form

\* An option id and a resource id that are not of this poll (of another
\* poll, or of none).
OtherOption   == NumOptions + 1
OtherResource == MaxResourceId + 1

\* All five tables as stored.
Stored == [polls |-> polls, poll_options |-> poll_options,
           poll_resources |-> poll_resources, responses |-> responses,
           matrix_responses |-> matrix_responses]

\* str.strip() of the participant_name field (line 256).
RawNames == Names \cup {"", " "}
Strip(s) == IF s = " " THEN "" ELSE s

\* Forms made by hand: fields may be missing, and may name ids that are not
\* of the poll.
RawStandardForms(types) ==
    {[option |-> f, resource |-> NoResource, cell |-> {}] :
        f \in UNION {[S -> types] : S \in SUBSET (OptionIds \cup {OtherOption})}}
RawSingleForms(resources) ==
    {[option |-> NoOption, resource |-> f, cell |-> {}] :
        f \in [resources \cup {OtherResource} ->
                  {0} \cup OptionIds \cup {OtherOption}]}
RawMultiForms(resources) ==
    {[option |-> NoOption, resource |-> NoResource, cell |-> c] :
        c \in {x \in SUBSET ((resources \cup {OtherResource})
                               \X (OptionIds \cup {OtherOption})) :
                 Cardinality(x) <= MaxCells}}
RawForms(stored_polls, resources, types) ==
    IF stored_polls = <<>> THEN StandardForms(types)
    ELSE IF stored_polls[1].poll_type = "matrix"
    THEN IF stored_polls[1].allow_multi_bookings THEN RawMultiForms(resources)
                                                 ELSE RawSingleForms(resources)
    ELSE RawStandardForms(types)

\* Any client posts any form to /poll/<public_id>/respond, at a server that
\* handles one request at a time.
ReceiveRaw(p) ==
    /\ \A q \in Procs : req[q].pc = "idle"
    /\ \E n \in RawNames, f \in RawForms(polls, poll_resources, Types) :
          req' = [req EXCEPT ![p] = [Idle EXCEPT !.pc = "poll", !.name = Strip(n),
                                                 !.form = f, !.before = Stored]]
    /\ NoWrite /\ NoAdmin /\ Same

\* An exception raised by sqlite3 in a DML statement or in db.commit(): the
\* handler is over without a commit; close_db (teardown) follows.
WritePcs == {"delete", "insert", "m_delete", "m_insert", "commit"}
Fail(p) ==
    /\ req[p].pc \in WritePcs
    /\ NoWrite /\ NoAdmin /\ Same
    /\ Return(p, "error")

\* datetime.now() moves on.
Tick ==
    /\ now < MaxTime
    /\ now' = now + 1
    /\ UNCHANGED <<polls, poll_options, poll_resources, responses,
                   matrix_responses, lock, journal, received, req>>

\* The ids AUTOINCREMENT gives to n new poll_resources rows: above every id
\* the table ever held.
Largest(S) == CHOOSE x \in S : \A y \in S : y <= x
NewResources(resources, n) ==
    LET last == IF resources = {} THEN 0 ELSE Largest(resources)
    IN  (last + 1)..(last + n)

\* edit_poll (POST): one transaction on the administrator's connection, from
\* the UPDATE of line 640 to db.commit() (line 670); the returns of lines 633
\* and 661 leave without a commit.  `form` is the posted form: title,
\* allow_changes, is_active, expires_at, max_participants,
\* allow_multi_bookings, option_max (per option id), resources (the number of
\* non-empty resource_name[] fields).  No PRAGMA foreign_keys is set, so
\* the DELETE of line 663 removes poll_resources rows only.
edit_poll(form) ==
    /\ polls # <<>>
    /\ lock = 0
    /\ LET poll == polls[1]
           matrix == poll.poll_type = "matrix"
           max_participants ==
               IF matrix /\ form.max_participants = NULL
               THEN Some(1) ELSE form.max_participants
       IN  IF form.title = "" \/ (matrix /\ form.resources = 0)
           THEN UNCHANGED <<polls, poll_options, poll_resources>>
           ELSE /\ polls' = <<[poll EXCEPT
                                 !.allow_changes = form.allow_changes,
                                 !.max_participants = max_participants,
                                 !.is_active = form.is_active,
                                 !.expires_at = form.expires_at,
                                 !.allow_multi_bookings =
                                     form.allow_multi_bookings]>>
                /\ poll_options' = [o \in DOMAIN poll_options |->
                                       form.option_max[o]]
                /\ IF matrix
                   THEN /\ Largest(poll_resources) + form.resources
                              <= MaxResourceId
                        /\ poll_resources' =
                              NewResources(poll_resources, form.resources)
                   ELSE UNCHANGED poll_resources
    /\ UNCHANGED <<responses, matrix_responses, lock, journal, now, received,
                   req>>

\* delete_poll (lines 680-689): five DELETEs in one transaction.
delete_poll ==
    /\ lock = 0
    /\ polls' = <<>>
    /\ poll_options' = <<>>
    /\ poll_resources' = {}
    /\ responses' = EmptyBag
    /\ matrix_responses' = EmptyBag
    /\ UNCHANGED <<lock, journal, now, received, req>>

\* The edit page's form with the settings as stored, then changed by the
\* administrator in is_active and the number of resources.
EditFormOf(poll, options) ==
    [title |-> "t", allow_changes |-> poll.allow_changes,
     is_active |-> poll.is_active, expires_at |-> poll.expires_at,
     max_participants |-> poll.max_participants,
     allow_multi_bookings |-> poll.allow_multi_bookings,
     option_max |-> options, resources |-> 0]
GateEditForms ==
    {[EditFormOf(polls[1], poll_options) EXCEPT
         !.title = t, !.is_active = a, !.resources = n] :
       t \in {"", "t"}, a \in BOOLEAN, n \in 0..NumResources}

\* create_poll with an expires_at (line 522).
Expiring(rows, expires_at) == {[row EXCEPT !.expires_at = expires_at] : row \in rows}

\* One request at a time, of any client, and the administrator and the clock
\* between the requests; storage may fail in the write phase.  The poll
\* expires at time 1.
InitGate ==
    /\ InitTables
    /\ \/ /\ polls \in {<<row>> : row \in
                  Expiring(Polls("standard", {Some(1)}, {FALSE}), Some(1))}
          /\ poll_resources = {}
       \/ /\ polls \in {<<row>> : row \in
                  Expiring(Polls("matrix", {Some(1)}, {FALSE}), Some(1))}
          /\ poll_resources = ResourceIds
    /\ poll_options = [o \in OptionIds |-> NULL]

Quiet == \A q \in Procs : req[q].pc = "idle"

\* The administrator edits or deletes the poll between two requests.
EditBetween ==
    /\ Quiet
    /\ polls # <<>>
    /\ \E form \in GateEditForms : edit_poll(form)
DeleteBetween == Quiet /\ delete_poll

NextGate ==
    LET p == CHOOSE q \in Procs : TRUE IN
        \/ ReceiveRaw(p)
        \/ ReadPoll(p)
        \/ Standard(p)
        \/ Matrix(p)
        \/ Commit(p)
        \/ Fail(p)
        \/ close_db(p)
        \/ Tick
        \/ EditBetween
        \/ DeleteBetween

SpecGate == InitGate /\ [][NextGate]_vars

\* ------------------------------------------------------- claims C11 to C20
\* C11: the rows a stored submission leaves under its name carry option ids
\* and resource ids of the poll only: a form that names an id which is not
\* of the poll never gets that id into responses or matrix_responses.
C11_PollReferences ==
    [][\A p \in Procs :
          (req[p].pc = "commit" /\ req'[p].pc = "done" /\ req'[p].result = "ok")
          => /\ \A row \in DOMAIN RowsOf(responses', req[p].name) :
                   row.option_id \in DOMAIN poll_options
             /\ \A row \in DOMAIN RowsOf(matrix_responses', req[p].name) :
                   /\ row.option_id \in DOMAIN poll_options
                   /\ row.resource_id \in poll_resources]_vars

\* C12: the gate of respond_poll turns away every submission to a poll that
\* is not active ("unavailable") and every submission to an active poll
\* whose expires_at is set with now >= expires_at ("expired"), the instant
\* now = expires_at included; it lets every other submission through.  The
\* poll row is the one stored when the gate is evaluated.
C12_ExpiryGate ==
    [][\A p \in Procs :
          (req[p].pc = "poll" /\ req'[p].pc # "poll" /\ polls # <<>>)
          => LET poll == polls[1]
                 expired == poll.expires_at # NULL /\ now >= poll.expires_at[1]
             IN  IF ~poll.is_active THEN req'[p].result = "unavailable"
                 ELSE IF expired THEN req'[p].result = "expired"
                 ELSE req'[p].result \notin {"unavailable", "expired"}]_vars

\* The outcomes of respond_poll other than a stored submission and a storage
\* failure: poll not found or not active, expired, no name, changes not
\* allowed, duplicate selection, capacity exceeded.
Rejections == {"unavailable", "expired", "noname", "nochanges", "duplicate",
               "full"}

\* C13: a rejected submission leaves polls, poll_options, poll_resources,
\* responses and matrix_responses as they were when it arrived, and has no
\* transaction open.
C13_RejectedUnchanged ==
    \A p \in Procs :
        (req[p].pc = "done" /\ req[p].result \in Rejections)
        => (Stored = req[p].before /\ lock # p)

\* C13 happens: a participant with stored bookings asks for a booked-up pair
\* and is refused.
C13_Witness ==
    \E p \in Procs :
        /\ req[p].pc = "done" /\ req[p].result = "full"
        /\ RowsOf(matrix_responses, req[p].name) # EmptyBag

\* C14: a storage failure in the write phase (in the DELETE, in an INSERT or
\* at commit) leaves no partial write: the stored rows are those the
\* request found when it arrived, while its connection is still open and
\* once it is closed, and no transaction stays open.
C14_NoPartialWrite ==
    [][\A p \in Procs :
          (req[p].pc = "done" /\ req[p].result = "error")
          => /\ Stored = req[p].before
             /\ req'[p].pc = "idle" => (Stored' = req[p].before /\ lock' = 0)]_vars

\* C14 happens: the failure came after the DELETE of the name's old rows and
\* before the first INSERT.
C14_Witness ==
    \E p \in Procs :
        /\ req[p].pc = "done" /\ req[p].result = "error" /\ lock = p
        /\ RowsOf(req[p].before.responses, req[p].name) # EmptyBag
        /\ RowsOf(journal.responses, req[p].name) = EmptyBag

\* C15: get_option_max_participants(option, poll) is the option's
\* max_participants when the option has one (any integer, 0 too), else the
\* poll's max_participants, which is NULL (no cap) when the poll has none;
\* it is a function of the option row and the poll row alone.  Checked on
\* the rows every request has read.
C15_CapacityResolver ==
    \A p \in Procs :
        LET r == req[p] IN
        (r.poll # <<>> /\ r.options # <<>>) =>
            \A o \in DOMAIN r.options :
                LET max_p == get_option_max_participants(r.options[o], r.poll)
                IN  /\ r.options[o] # NULL => max_p = r.options[o]
                    /\ r.options[o] = NULL => max_p = r.poll.max_participants

\* C15 happens: a request has read an option with cap 0 in a poll with a cap
\* of its own, and an option without a cap.
C15_Witness ==
    \E p \in Procs :
        LET r == req[p] IN
        /\ r.poll # <<>> /\ r.options # <<>>
        /\ r.poll.max_participants # NULL
        /\ \E o1, o2 \in DOMAIN r.options :
              /\ r.options[o1] = Some(0)
              /\ r.options[o2] = NULL
              /\ FormOption(r.form, o1) = "yes"

\* The matrix_responses rows of an option, over all resources.
OptionTotal(o) ==
    RowCount(Where(matrix_responses, LAMBDA r : r.option_id = o))

\* C16 as stated: in a matrix poll the rows of an option with effective cap
\* C, summed over the resources of the poll, never exceed C.  (Caps of 1
\* and more only: what a cap of 0 does is left aside here.)
C16_OptionTotal ==
    IsMatrix =>
        \A o \in OptionIds :
            Truthy(Cap(o)) => OptionTotal(o) <= Cap(o)[1]

\* C16 amended: with one submission handled at a time and a cap C of 1 or
\* more, each (resource, option) pair of the poll holds at most C rows, so
\* an option holds at most C rows per resource of the poll.
C16_PairwiseTotal ==
    IsMatrix =>
        \A o \in OptionIds :
            Truthy(Cap(o)) =>
                /\ \A res \in poll_resources :
                      PairCount(matrix_responses, res, o) <= Cap(o)[1]
                /\ OptionTotal(o) <= Cap(o)[1] * Cardinality(poll_resources)

\* C16 happens: an option is booked up to its cap on every resource, beyond
\* its cap in total.
C16_Witness ==
    /\ IsMatrix
    /\ \E o \in OptionIds :
          /\ Truthy(Cap(o))
          /\ OptionTotal(o) = Cap(o)[1] * Cardinality(poll_resources)
          /\ OptionTotal(o) > Cap(o)[1]

\* C17: no stored row outlives what it refers to: once the poll is deleted
\* no responses or matrix_responses row is left, and in every state the
\* resource_id of each matrix_responses row is the id of a poll_resources
\* row of the poll.
C17_DeletionCascades ==
    /\ polls = <<>> => (responses = EmptyBag /\ matrix_responses = EmptyBag)
    /\ \A row \in DOMAIN matrix_responses : row.resource_id \in poll_resources

C19_ClearBookings ==
    \A p \in Procs :
        LET r == req[p] IN
        (/\ Admitted(r) /\ IsMatrix /\ ThePoll.allow_changes
         /\ HadRows(r) /\ FormSelections(r.form) = <<>>)
        => /\ r.result = "ok"
           /\ RowsOf(matrix_responses, r.name) = EmptyBag
           /\ DeleteOf(matrix_responses, r.name)
                = DeleteOf(r.before.matrix_responses, r.name)
           /\ responses = r.before.responses

\* C19 happens: the name gave up two bookings while another name kept its
\* own.
C19_Witness ==
    \E p \in Procs :
        LET r == req[p] IN
        /\ Admitted(r) /\ IsMatrix /\ ThePoll.allow_changes /\ r.result = "ok"
        /\ FormSelections(r.form) = <<>>
        /\ RowCount(RowsOf(r.before.matrix_responses, r.name)) = 2
        /\ matrix_responses # EmptyBag

\* ------------------------------------------- an edit during a submission
\* The edit page's form with the caps changed: the poll's cap and the cap
\* of every option.
CapEditForms ==
    {[EditFormOf(polls[1], poll_options) EXCEPT
         !.max_participants = m,
         !.option_max = [o \in DOMAIN poll_options |-> c],
         !.resources = n] :
       m \in {Some(1), Some(MaxCap)}, c \in {NULL, Some(MaxCap)},
       n \in 1..NumResources}

\* The administrator posts the edit form while request p is under way (on
\* another connection); one edit per request.
EditDuring(p) ==
    /\ req[p].pc \notin {"idle", "done"}
    /\ polls = req[p].before.polls
    /\ poll_options = req[p].before.poll_options
    /\ \E form \in CapEditForms : edit_poll(form)

\* A browser posts the form of the poll's page; the requests are handled one
\* at a time.
ReceiveOne(p) ==
    /\ Quiet
    /\ received < MaxRequests
    /\ received' = received + 1
    /\ Post(p, {"yes", "no"}, Stored)

InitEdit ==
    /\ InitTables
    /\ \/ /\ polls \in {<<row>> : row \in Polls("standard", {Some(1)}, {FALSE})}
          /\ poll_resources = {}
       \/ /\ polls \in {<<row>> : row \in Polls("matrix", {Some(1)}, {FALSE})}
          /\ poll_resources = ResourceIds
    /\ poll_options = [o \in OptionIds |-> NULL]

NextEdit ==
    LET p == CHOOSE q \in Procs : TRUE IN
        \/ ReceiveOne(p)
        \/ ReadPoll(p)
        \/ Standard(p)
        \/ Matrix(p)
        \/ Commit(p)
        \/ close_db(p)
        \/ EditDuring(p)

SpecEdit == InitEdit /\ [][NextEdit]_vars

\* C20: a submission that overlaps an edit of the poll sees all of the edit
\* or none of it: the poll row and the option caps it has read are those
\* stored when it arrived or those stored now, never one from before the
\* edit and the other from after it; and when its rows are committed, the
\* settings it checked them against are the stored ones.
C20_EditsSerialized ==
    [][\A p \in Procs :
          LET r == req[p] IN
          /\ (r.pc \notin {"idle", "done"} /\ r.options # <<>>)
             => \/ (r.poll = r.before.polls[1]
                    /\ r.options = r.before.poll_options)
                \/ (r.poll = polls[1] /\ r.options = poll_options)
          /\ (r.pc = "commit" /\ req'[p].pc = "done" /\ req'[p].result = "ok")
             => (r.poll = polls[1] /\ r.options = poll_options)]_vars

\* ------------------------------------------------------- claims C21 to C25
\* C21: the duplicate rule holds in multi-choice mode too: a form that
\* checks one option for two resources of the poll is rejected as a
\* duplicate selection and the tables stay as they were, and a stored
\* multi-choice submission leaves its name with no two rows of one option.
C21_DuplicateInMultiMode ==
    \A p \in Procs :
        LET r == req[p] IN
        (Admitted(r) /\ IsMatrix /\ ThePoll.allow_multi_bookings)
        => /\ (/\ ~(HadRows(r) /\ ~ThePoll.allow_changes)
               /\ \E c1, c2 \in r.form.cell :
                     /\ c1[1] \in poll_resources /\ c2[1] \in poll_resources
                     /\ c1[1] # c2[1]
                     /\ c1[2] = c2[2] /\ c1[2] \in OptionIds)
              => (r.result = "duplicate" /\ Committed = r.before)
           /\ r.result = "ok"
              => \A r1, r2 \in DOMAIN RowsOf(matrix_responses, r.name) :
                    r1.option_id = r2.option_id => r1 = r2

\* C21 happens: the two cells were free, so that the capacity check would
\* have let the form through.
C21_Witness ==
    \E p \in Procs :
        LET r == req[p] IN
        /\ Admitted(r) /\ IsMatrix /\ ThePoll.allow_multi_bookings
        /\ r.result = "duplicate"
        /\ Cardinality(r.form.cell) = 2
        /\ ~MatExceeds(r.before, r.name, FormSelections(r.form))

\* C22: a standard submission that passes the gate and the allow_changes
\* check is rejected for capacity exactly when an option requested 'yes'
\* has an integer cap C, 0 included, and its 'yes' rows, the name's own not
\* counted, number C or more.
C22_CapacityRejection ==
    \A p \in Procs :
        LET r == req[p] IN
        (Admitted(r) /\ IsStandard /\ ~TurnedAway(r))
        => (r.result = "full"
            <=> \E o \in OptionIds :
                   /\ FormOption(r.form, o) = "yes"
                   /\ Cap(o) # NULL
                   /\ get_option_booking_count(r.before.responses, o)
                        - (IF HeldYes(r.before.responses, r.name, o)
                           THEN 1 ELSE 0) >= Cap(o)[1])

\* C23: the committed tables never hold two responses rows of one option
\* and one participant name, nor two matrix_responses rows of one resource,
\* one option and one participant name, also when two submissions under
\* one name overlap.
C23_OneRowPerKey ==
    /\ \A r1, r2 \in DOMAIN Committed.responses :
          (r1.option_id = r2.option_id
           /\ r1.participant_name = r2.participant_name)
          => (r1 = r2 /\ Committed.responses[r1] = 1)
    /\ \A r1 \in DOMAIN Committed.matrix_responses :
          Committed.matrix_responses[r1] = 1

\* C24: in a matrix poll in single-choice mode a stored submission leaves
\* its name with at most one row per resource, and the rows it holds for
\* different resources have different option ids.
C24_OneRowPerResource ==
    \A p \in Procs :
        LET r == req[p]
            rows == RowsOf(matrix_responses, r.name)
        IN
        (Admitted(r) /\ IsMatrix /\ ~ThePoll.allow_multi_bookings
         /\ r.result = "ok")
        => \A r1, r2 \in DOMAIN rows :
              /\ rows[r1] = 1
              /\ r1.resource_id = r2.resource_id => r1 = r2
              /\ r1.option_id = r2.option_id => r1 = r2

\* C24 happens: the name held another option for one of the resources
\* before, and holds rows for two resources now.
C24_Witness ==
    \E p \in Procs :
        LET r == req[p]
            rows == RowsOf(matrix_responses, r.name)
        IN
        /\ Admitted(r) /\ IsMatrix /\ ~ThePoll.allow_multi_bookings
        /\ r.result = "ok"
        /\ Cardinality(DOMAIN rows) = 2
        /\ \E old \in DOMAIN RowsOf(r.before.matrix_responses, r.name) :
              \E new \in DOMAIN rows :
                 /\ old.resource_id = new.resource_id
                 /\ old.option_id # new.option_id

\* C25: one request at a time, with no administrator edit and every
\* effective cap an integer of 1 or more or absent, the 'yes' rows of each
\* capped option of a standard poll and the rows of each (resource, option)
\* pair of a capped option of a matrix poll never number more than the cap.
C25_SerialCapacity ==
    (\A o \in OptionIds : Cap(o) # NULL => Cap(o)[1] >= 1)
    => \A o \in OptionIds :
          Cap(o) # NULL
          => /\ IsStandard
                => get_option_booking_count(Committed.responses, o)
                     <= Cap(o)[1]
             /\ IsMatrix
                => \A res \in poll_resources :
                      PairCount(Committed.matrix_responses, res, o)
                        <= Cap(o)[1]

\* C25 happens: an option of a standard poll is booked up to its cap, and
\* a request for it by a name that answered 'no' before was refused.
C25_Witness ==
    \E p \in Procs : \E o \in OptionIds :
        LET r == req[p] IN
        /\ \A x \in OptionIds : Cap(x) # NULL => Cap(x)[1] >= 1
        /\ Admitted(r) /\ IsStandard /\ r.result = "full"
        /\ Cap(o) # NULL
        /\ FormOption(r.form, o) = "yes"
        /\ get_option_booking_count(Committed.responses, o) = Cap(o)[1]
        /\ \E old \in DOMAIN RowsOf(r.before.responses, r.name) :
              old.option_id = o /\ old.response_type = "no"
====
